---- MODULE Spec2Model ----
(***************************************************************************)
(* microbe-metrics: the JGI ingestion pipeline.                            *)
(*                                                                         *)
(*   src/src/worker/jgi-extractor.ts     JGIDataExtractor (lines 1-388)    *)
(*   src/src/worker/debug.ts             DebugUtilities, R2StorageManager  *)
(*   src/src/worker/analytics-processor.ts                                 *)
(*                                       AnalyticsProcessor (1-341),       *)
(*                                       MicrobeMetricsAPI, handleScheduled*)
(*                                       (343-1034)                        *)
(*                                                                         *)
(* Several specifications share the definitions below, among them:         *)
(*   SpecMerge  mergeAndDeduplicate applied to every id-unique dataset and *)
(*              every batch of the record universe, then re-applied;       *)
(*   Spec       pipeline runs executed back to back, page by page, with    *)
(*              upstream and storage failures;                             *)
(*   SpecConc   two overlapping pipeline runs (the worker has no lock);    *)
(*   SpecUpstream  extractGenomesForDomain over described portal pages,    *)
(*              with missing fields and malformed records;                 *)
(*   SpecDebug  handleDebugRoute in every environment.                     *)
(***************************************************************************)
EXTENDS Integers, Sequences, FiniteSets, TLC

\* ------------------------------------------------------------------ bounds
MaxBatchLen == 2      \* longest incoming batch drawn in SpecMerge
MaxMerges == 2        \* merges applied in a row in SpecMerge
MaxRuns == 1          \* pipeline runs triggered in one behaviour
MaxAggregated == 2    \* longest dataset drawn in SpecAnalytics

\* ------------------------------------------------------- record universe
Undefined == "undefined"
Ids == {"X", "Y"}
GeneCounts == {100, 150}
SubmissionDates == {"2024-01-01", "2024-02-01"}

\* JGIGenomeProject, restricted to the fields the reconciler reads or keeps.
GenomeProject(id, geneCount, submissionDate, domain, extractedAt) ==
    [id |-> id,
     sequenceLength |-> Undefined,
     geneCount |-> geneCount,
     status |-> "available",
     submissionDate |-> submissionDate,
     metadata |-> [domain |-> domain, phylum |-> Undefined],
     extractedAt |-> extractedAt]

MergeRecords ==
    {GenomeProject(i, g, s, "Bacteria", 0) :
        i \in Ids, g \in GeneCounts, s \in SubmissionDates}

\* What a later extraction brings: the same organisms observed at time 1, with
\* either gene count and either date, or with the phylum the portal has come
\* to list for them.
IncomingRecords ==
    {GenomeProject(i, g, s, "Bacteria", 1) :
        i \in Ids, g \in GeneCounts, s \in SubmissionDates}
    \cup {[GenomeProject(i, 100, "2024-01-01", "Bacteria", 1)
              EXCEPT !.metadata.phylum = "Firmicutes"] : i \in Ids}

\* ------------------------------------------------------------- reconciler
RECURSIVE SeqsUpTo(_, _)
SeqsUpTo(S, n) ==
    IF n = 0 THEN {<<>>}
    ELSE LET shorter == SeqsUpTo(S, n - 1)
         IN  shorter \cup {Append(q, x) : q \in {p \in shorter : Len(p) = n - 1}, x \in S}

IdsOf(projects) == {projects[i].id : i \in 1..Len(projects)}

UniqueIds(projects) ==
    \A i, j \in 1..Len(projects) : projects[i].id = projects[j].id => i = j

\* JSON.stringify of a metadata object: keys in insertion order, keys whose
\* value is undefined are dropped.
JSONstringify(metadata) ==
    <<<<"domain", metadata.domain>>>> \o
    (IF metadata.phylum = Undefined THEN <<>> ELSE <<<<"phylum", metadata.phylum>>>>)

\* Map<string, JGIGenomeProject> as the sequence of its values in insertion
\* order: set() on a present key keeps the key's position.
MapHas(projectMap, id) == \E i \in 1..Len(projectMap) : projectMap[i].id = id

MapGet(projectMap, id) ==
    projectMap[CHOOSE i \in 1..Len(projectMap) : projectMap[i].id = id]

MapSet(projectMap, project) ==
    IF MapHas(projectMap, project.id)
    THEN [i \in 1..Len(projectMap) |->
            IF projectMap[i].id = project.id THEN project ELSE projectMap[i]]
    ELSE Append(projectMap, project)

\* (the map left empty: the existing projects never set into it)
MapNotSeeded(masterDataset) == <<>>

RECURSIVE MapFromArray(_)
MapFromArray(masterDataset) ==
    IF masterDataset = <<>> THEN <<>>
    ELSE MapSet(MapFromArray(SubSeq(masterDataset, 1, Len(masterDataset) - 1)),
                masterDataset[Len(masterDataset)])

\* (metadata left out of the comparison)
hasChangesIgnoringMetadata(existing, newProject) ==
    \/ existing.sequenceLength # newProject.sequenceLength
    \/ existing.geneCount # newProject.geneCount
    \/ existing.status # newProject.status

hasChanges(existing, newProject) ==
    \/ existing.sequenceLength # newProject.sequenceLength
    \/ existing.geneCount # newProject.geneCount
    \/ existing.status # newProject.status
    \/ JSONstringify(existing.metadata) # JSONstringify(newProject.metadata)

\* (the incoming record stored as it came)
UpdatedTakingIncomingDate(existing, newProject) == newProject

\* { ...newProject, submissionDate: existing.submissionDate }
UpdatedProject(existing, newProject) ==
    [newProject EXCEPT !.submissionDate = existing.submissionDate]

\* (newCount incremented for every incoming record, not only for new ids)
MergeOneCountingEveryRecord(acc, newProject) ==
    IF ~MapHas(acc.projectMap, newProject.id)
    THEN [projectMap |-> MapSet(acc.projectMap, newProject),
          newCount |-> acc.newCount + 1,
          updatedCount |-> acc.updatedCount]
    ELSE LET existing == MapGet(acc.projectMap, newProject.id)
         IN  IF hasChanges(existing, newProject)
             THEN [projectMap |-> MapSet(acc.projectMap, UpdatedProject(existing, newProject)),
                   newCount |-> acc.newCount + 1,
                   updatedCount |-> acc.updatedCount + 1]
             ELSE [acc EXCEPT !.newCount = @ + 1]

\* One iteration of the loop over newProjects.
MergeOne(acc, newProject) ==
    IF ~MapHas(acc.projectMap, newProject.id)
    THEN [projectMap |-> MapSet(acc.projectMap, newProject),
          newCount |-> acc.newCount + 1,
          updatedCount |-> acc.updatedCount]
    ELSE LET existing == MapGet(acc.projectMap, newProject.id)
         IN  IF hasChanges(existing, newProject)
             THEN [projectMap |-> MapSet(acc.projectMap, UpdatedProject(existing, newProject)),
                   newCount |-> acc.newCount,
                   updatedCount |-> acc.updatedCount + 1]
             ELSE acc

RECURSIVE MergeLoop(_, _)
MergeLoop(acc, newProjects) ==
    IF newProjects = <<>> THEN acc
    ELSE MergeLoop(MergeOne(acc, Head(newProjects)), Tail(newProjects))

mergeAndDeduplicate(masterDataset, newProjects) ==
    LET final == MergeLoop([projectMap |-> MapFromArray(masterDataset),
                            newCount |-> 0,
                            updatedCount |-> 0], newProjects)
    IN  [merged |-> final.projectMap,
         stats |-> [newCount |-> final.newCount,
                    updatedCount |-> final.updatedCount,
                    totalCount |-> Len(final.projectMap)]]

\* ---------------------------------------------------------------- upstream
pageSize == 100
IncrementalMaxPages == 3
FullMaxPages == 100

SearchDomains == {"archaea", "bacteria"}
Runs == {"r1", "r2"}
Environments == {"development", "production"}

\* totals the portal may report for a query
Totals == {0, 50, 150, 350}

\* the bacteria query also meets a result set beyond 100 pages of 100
LargeTotal == 10050
DomainTotals(domain) == IF domain = "bacteria" THEN Totals \cup {LargeTotal} ELSE Totals

\* The organism the portal lists on page p of a domain query: a1, a2, ... for
\* archaea and b1, b2, ... for bacteria.
OrganismId(domain, p) == (IF domain = "archaea" THEN "a" ELSE "b") \o ToString(p)

RawOrganism(domain, p) ==
    [id |-> OrganismId(domain, p),
     name |-> "Genus species",
     file_total |-> 100,
     proposal_acceptance_date |-> "2024-01-01"]

\* what one fetch of a page followed by response.json() can produce
\* (ok: the status was a success and the body decoded; isArray: the body has an
\* organisms array)
PageResponses(domain, p) ==
    {[ok |-> FALSE, isArray |-> FALSE, organisms |-> <<>>, total |-> 0]}
    \cup {[ok |-> TRUE, isArray |-> FALSE, organisms |-> <<>>, total |-> t] : t \in DomainTotals(domain)}
    \cup {[ok |-> TRUE, isArray |-> TRUE, organisms |-> o, total |-> t] :
            o \in {<<>>, <<RawOrganism(domain, p)>>}, t \in DomainTotals(domain)}

\* domain.charAt(0).toUpperCase() + domain.slice(1)
Capitalize(domain) == IF domain = "archaea" THEN "Archaea" ELSE "Bacteria"

\* (the search term taken as the domain, in lower case as it was queried)
parseOrganismMetadataRawDomain(organism, domain) == [domain |-> domain, phylum |-> Undefined]

parseOrganismMetadata(organism, domain) == [domain |-> Capitalize(domain), phylum |-> Undefined]

\* what Math.random().toString() may give
Randoms == {"0.1", "0.7"}

\* the draws a page of n organisms may use, one per organism
RandomDraws(n) == {q \in SeqsUpTo(Randoms, n) : Len(q) = n}

\* for organisms that all have an id Math.random is not called
NotDrawn(n) == CHOOSE q \in RandomDraws(n) : TRUE

\* a name field that holds a JSON number: organism.split is not a function
NonStringName == "(number)"

\* processOrganismResult throws: parseOrganismMetadata calls split on the name
NormalizationThrows(organism) == organism.name = NonStringName

\* processOrganismResult: <<>> stands for the null result, <<project>> for a
\* project; random is what Math.random() gives if it is called, which it is
\* when the organism has no id
processOrganismResult(organism, domain, at, random) ==
    IF organism.name = Undefined /\ organism.id = Undefined THEN <<>>
    ELSE <<[id |-> IF organism.id # Undefined THEN organism.id ELSE random,
            sequenceLength |-> Undefined,
            geneCount |-> organism.file_total,
            status |-> "available",
            submissionDate |-> organism.proposal_acceptance_date,
            metadata |-> parseOrganismMetadata(organism.name, domain),
            extractedAt |-> at]>>

\* (a throw inside the organisms loop ends the loop)
RECURSIVE ProcessOrganismsUntilThrow(_, _, _, _)
ProcessOrganismsUntilThrow(organisms, domain, at, randoms) ==
    IF organisms = <<>> \/ NormalizationThrows(Head(organisms)) THEN <<>>
    ELSE processOrganismResult(Head(organisms), domain, at, Head(randoms))
            \o ProcessOrganismsUntilThrow(Tail(organisms), domain, at, Tail(randoms))

\* for (const organism of data.organisms) { try { ... push ... } catch { } }
RECURSIVE ProcessOrganisms(_, _, _, _)
ProcessOrganisms(organisms, domain, at, randoms) ==
    IF organisms = <<>> THEN <<>>
    ELSE (IF NormalizationThrows(Head(organisms)) THEN <<>>
          ELSE processOrganismResult(Head(organisms), domain, at, Head(randoms)))
            \o ProcessOrganisms(Tail(organisms), domain, at, Tail(randoms))

maxPagesFor(fullExtraction) == IF fullExtraction THEN FullMaxPages ELSE IncrementalMaxPages

\* the local variables of one extractGenomesForDomain call; once the call has
\* returned only its result (and the page whose request failed, 0 if none) remain
DomainStart ==
    [projects |-> <<>>, currentPage |-> 1, hasMore |-> TRUE,
     returned |-> FALSE, result |-> <<>>, failedPage |-> 0]

Returned(result, failedPage) ==
    [projects |-> <<>>, currentPage |-> 0, hasMore |-> FALSE,
     returned |-> TRUE, result |-> result, failedPage |-> failedPage]

\* (page numbers counted from 0)
RequestedPageZeroBased(loop) == loop.currentPage - 1

\* the p parameter of the search URL the loop requests next
RequestedPage(loop) == loop.currentPage

\* (the records gathered before the failed request dropped)
ReturnNothingOnError(loop) == Returned(<<>>, loop.currentPage)

\* catch (error) { return projects; }
ReturnOnError(loop) == Returned(loop.projects, loop.currentPage)

\* (the loop going on after a page without organisms)
DomainIterationPastEmptyPage(loop, domain, maxPages, response, at, randoms) ==
    IF ~response.ok THEN ReturnOnError(loop)
    ELSE IF ~response.isArray THEN Returned(loop.projects, 0)
    ELSE LET projects == loop.projects
                            \o ProcessOrganisms(response.organisms, domain, at, randoms)
             fetchedSoFar == loop.currentPage * pageSize
             hasMore == fetchedSoFar < response.total
             currentPage == loop.currentPage + 1
         IN  IF hasMore /\ currentPage <= maxPages
             THEN [loop EXCEPT !.projects = projects, !.currentPage = currentPage,
                               !.hasMore = hasMore]
             ELSE Returned(projects, 0)

\* (the loop test without the page cap)
DomainIterationUncapped(loop, domain, maxPages, response, at, randoms) ==
    IF ~response.ok THEN ReturnOnError(loop)
    ELSE IF ~response.isArray THEN Returned(loop.projects, 0)
    ELSE LET projects == loop.projects
                            \o ProcessOrganisms(response.organisms, domain, at, randoms)
             fetchedSoFar == loop.currentPage * pageSize
             hasMore == Len(response.organisms) > 0 /\ fetchedSoFar < response.total
             currentPage == loop.currentPage + 1
         IN  IF hasMore
             THEN [loop EXCEPT !.projects = projects, !.currentPage = currentPage,
                               !.hasMore = hasMore]
             ELSE Returned(projects, 0)

\* One iteration of the while loop of extractGenomesForDomain, from the fetch
\* to the loop test that follows it.
DomainIteration(loop, domain, maxPages, response, at, randoms) ==
    IF ~response.ok THEN ReturnOnError(loop)
    ELSE IF ~response.isArray THEN Returned(loop.projects, 0)
    ELSE LET projects == loop.projects
                            \o ProcessOrganisms(response.organisms, domain, at, randoms)
             fetchedSoFar == loop.currentPage * pageSize
             hasMore == Len(response.organisms) > 0 /\ fetchedSoFar < response.total
             currentPage == loop.currentPage + 1
         IN  IF hasMore /\ currentPage <= maxPages
             THEN [loop EXCEPT !.projects = projects, !.currentPage = currentPage,
                               !.hasMore = hasMore]
             ELSE Returned(projects, 0)

\* -------------------------------------------------------------- analytics
CountDomain(projects, domain) ==
    Cardinality({i \in 1..Len(projects) : projects[i].metadata.domain = domain})

computeOverview(projects, at) ==
    [totalProjects |-> Len(projects),
     archaeaProjects |-> CountDomain(projects, "Archaea"),
     bacteriaProjects |-> CountDomain(projects, "Bacteria"),
     lastUpdated |-> at]

\* lastExtraction: the cache entry last_extraction, <<>> when absent
ActivityLimit == 10

\* activities.slice(0, end)
SliceFromStart(activities, end) ==
    SubSeq(activities, 1, IF Len(activities) < end THEN Len(activities) ELSE end)

computeRecentActivity(lastExtraction, at) ==
    SliceFromStart(
        (IF lastExtraction # <<>>
         THEN <<[type |-> "extraction", status |-> "success", timestamp |-> lastExtraction[1]]>>
         ELSE <<>>)
        \o <<[type |-> "processing", status |-> "success", timestamp |-> at]>>,
        ActivityLimit)

processData(projects, lastExtraction, at) ==
    [overview |-> computeOverview(projects, at),
     recentActivity |-> computeRecentActivity(lastExtraction, at)]

\* ---- the parts of an aggregation that depend on the clock and on history.
\* Times are hours since the epoch.  An ISO timestamp is <<day, hour>>, the
\* date string before its "T" is <<day>>; a date-only string is <<day>>.
HoursPerDay == 24
IsoTimestamp(at) == <<at \div HoursPerDay, at % HoursPerDay>>
IsoDate(day) == <<day>>

\* str.split("T")[0]
SplitT(str) == <<str[1]>>

\* a number as JavaScript holds it: finite, or NaN / Infinity
Num(n) == [isFinite |-> TRUE, value |-> n]
NotFinite == [isFinite |-> FALSE, value |-> 0]

\* a / b in JavaScript, in units of 1 / scale, rounded as Math.round does
\* (half up); a division by zero gives NaN or Infinity
RoundedQuotient(a, b, scale) ==
    IF b = 0 THEN NotFinite
    ELSE IF b > 0 THEN Num((2 * a * scale + b) \div (2 * b))
    ELSE Num((2 * (0 - a) * scale + (0 - b)) \div (2 * (0 - b)))

\* getHistoricalOverview: the overview of yesterday's history object; null
\* (<<>>) when there is none or the read throws
getHistoricalOverview(object, readOk) ==
    IF ~readOk \/ object = <<>> THEN <<>> ELSE <<object[1].overview>>

\* (only a missing history object guarded against)
calculateGrowthRateNullCheckOnly(currentTotal, historicalData) ==
    IF historicalData = <<>> THEN Num(0)
    ELSE IF historicalData[1].totalProjects = <<>> THEN NotFinite
    ELSE RoundedQuotient(currentTotal - historicalData[1].totalProjects[1],
                         historicalData[1].totalProjects[1], 10000)

\* calculateGrowthRate, in hundredths of a percent.  totalProjects of the
\* historical overview is <<>> when the field is absent.
calculateGrowthRate(currentTotal, historicalData) ==
    IF historicalData = <<>>
       \/ historicalData[1].totalProjects = <<>>
       \/ historicalData[1].totalProjects = <<0>>
    THEN Num(0)
    ELSE RoundedQuotient(currentTotal - historicalData[1].totalProjects[1],
                         historicalData[1].totalProjects[1], 10000)

TrendDays == 30

\* trends.get(dateStr) of computeDailyTrends: the projects of a domain whose
\* submission date falls on the date
TrendCount(projects, dateStr, domain) ==
    Cardinality({i \in 1..Len(projects) :
                    /\ SplitT(projects[i].submissionDate) = dateStr
                    /\ projects[i].metadata.domain = domain})

DailyRows(projects, dateStr) ==
    <<[date |-> dateStr, count |-> TrendCount(projects, dateStr, "Bacteria"),
       domain |-> "Bacteria"],
      [date |-> dateStr, count |-> TrendCount(projects, dateStr, "Archaea"),
       domain |-> "Archaea"]>>

\* the loop for (let i = 0; i < 30; i++), iterations i .. 29
RECURSIVE DailyFrom(_, _, _)
DailyFrom(projects, thirtyDaysAgo, i) ==
    IF i >= TrendDays THEN <<>>
    ELSE DailyRows(projects, SplitT(IsoTimestamp(thirtyDaysAgo + i * HoursPerDay)))
            \o DailyFrom(projects, thirtyDaysAgo, i + 1)

\* (only the dates that have submissions listed)
RECURSIVE DailyFromSparse(_, _, _)
DailyFromSparse(projects, thirtyDaysAgo, i) ==
    IF i >= TrendDays THEN <<>>
    ELSE LET dateStr == SplitT(IsoTimestamp(thirtyDaysAgo + i * HoursPerDay))
         IN  (IF \E j \in 1..Len(projects) : SplitT(projects[j].submissionDate) = dateStr
              THEN DailyRows(projects, dateStr) ELSE <<>>)
                \o DailyFromSparse(projects, thirtyDaysAgo, i + 1)

computeDailyTrendsSparse(projects, at) ==
    DailyFromSparse(projects, at - TrendDays * HoursPerDay, 0)

computeDailyTrends(projects, at) ==
    DailyFrom(projects, at - TrendDays * HoursPerDay, 0)

\* METADATA_CACHE.get at time `at` of an entry [value, writtenAt, expirationTtl]:
\* the entry is gone once its TTL (in seconds) has elapsed
SecondsPerHour == 3600
KvGetAt(entry, at) ==
    IF entry # <<>> /\ (at - entry[1].writtenAt) * SecondsPerHour < entry[1].expirationTtl
    THEN <<entry[1].value>> ELSE <<>>

HealthyBelowHours == 25
WarningBelowHours == 48

\* computePipelineHealth: the status; lastExtraction is <<>> when the cache
\* has no entry, and the time is then taken as the epoch
computePipelineHealth(lastExtraction, at) ==
    LET lastExtractionTime == IF lastExtraction # <<>> THEN lastExtraction[1] ELSE 0
        hoursSinceLastExtraction == at - lastExtractionTime
    IN  IF hoursSinceLastExtraction < HealthyBelowHours THEN "healthy"
        ELSE IF hoursSinceLastExtraction < WarningBelowHours THEN "warning"
        ELSE "error"

\* timestamp.split("T")[0]: one pipeline run per calendar day
DateKey(at) == at
DateKeys == 0..(MaxRuns + 1)

\* ------------------------------------------------------------------ state
VARIABLES
    mMaster,      \* SpecMerge: the master dataset (array of projects)
    mIncoming,    \* SpecMerge: the incoming batch
    mPrev,        \* SpecMerge: the dataset the last merge started from
    mStats,       \* SpecMerge: stats of the last merge
    mFirstSeen,   \* SpecMerge: id -> submissionDate of its first observation
    mCount,       \* SpecMerge: merges applied so far
    env,          \* env.ENVIRONMENT
    clock,        \* runs triggered so far; a run's time is its number
    pc,           \* run -> the await the run is at
    kind,         \* run -> "scheduled" | "manual"
    fullExtraction,\* run -> the argument extractLatestData was called with
    now,          \* run -> the time of the run
    loops,        \* run -> search domain -> locals of extractGenomesForDomain
    newProjects,  \* run -> [...archaeaData, ...bacteriaData]
    masterDataset,\* run -> what getMasterDataset returned
    stats,        \* run -> stats of the run's merge
    analytics,    \* run -> <<>> or <<the AnalyticsData processData returned>>
    outcome,      \* run -> "none" | "success" | "error" | "forbidden"
    failedAt,     \* run -> the step whose failure ended the run, "" if none
    preRun,       \* run -> the consumer-visible stores when the run was triggered
    r2master,     \* R2 master/genomes.json: <<>> or <<object>>
    r2raw,        \* R2 raw/jgi-responses/<date>.json: date -> <<>> or <<projects>>
    r2current,    \* R2 analytics/current.json: <<>> or <<AnalyticsData>>
    r2history,    \* R2 analytics/history/<date>.json: date -> <<>> or <<AnalyticsData>>
    kv,           \* METADATA_CACHE: key -> <<>> or <<value>>
    kvTtl,        \* METADATA_CACHE: key -> expirationTtl of the entry in seconds, 0 if absent
    served,       \* <<>> or <<the overview the last overview request was answered with>>
    aIn,          \* SpecAnalytics: the inputs of one aggregation
    aOut,         \* SpecAnalytics: <<>> or <<what the aggregation computed>>
    debugResponse,\* <<>> or <<the answer to the last request under /api/debug/>>
    upstream,     \* SpecUpstream: <<>> or <<what the portal holds for one domain query>>
    pageLoop,     \* SpecUpstream: locals of extractGenomesForDomain
    requested     \* SpecUpstream: the page numbers requested by the current call, in order

mergeVars == <<mMaster, mIncoming, mPrev, mStats, mFirstSeen, mCount>>
runVars == <<pc, kind, fullExtraction, now, loops, newProjects, masterDataset, stats, analytics,
             outcome, failedAt, preRun>>
storeVars == <<r2master, r2raw, r2current, r2history, kv, kvTtl>>
pipeVars == <<env, clock, runVars, storeVars>>
analyticsVars == <<aIn, aOut>>
debugVars == <<debugResponse>>
upstreamVars == <<upstream, pageLoop, requested>>
vars == <<mergeVars, pipeVars, served, analyticsVars, debugVars, upstreamVars>>

\* the object storeMasterDataset serializes
MasterObject(projects, st, at) ==
    [projects |-> projects, totalCount |-> Len(projects), lastUpdated |-> at,
     metadata |-> [newGenomes |-> st.newCount, updatedGenomes |-> st.updatedCount]]

NoStats == [newCount |-> 0, updatedCount |-> 0, totalCount |-> 0]

\* expirationTtl of the cache entries, in seconds
DayTtl == 86400
HourTtl == 3600

KvKeys == {"last_extraction", "master_metadata", "analytics_overview", "recent_activity"}

ConsumerState ==
    [last_extraction |-> kv["last_extraction"],
     analytics_overview |-> kv["analytics_overview"],
     current |-> r2current,
     history |-> r2history]

NoLoops == [d \in SearchDomains |-> DomainStart]

RunsIdle ==
    /\ clock = 0
    /\ pc = [r \in Runs |-> "idle"]
    /\ kind = [r \in Runs |-> "none"]
    /\ fullExtraction = [r \in Runs |-> FALSE]
    /\ now = [r \in Runs |-> 0]
    /\ loops = [r \in Runs |-> NoLoops]
    /\ newProjects = [r \in Runs |-> <<>>]
    /\ masterDataset = [r \in Runs |-> <<>>]
    /\ stats = [r \in Runs |-> NoStats]
    /\ analytics = [r \in Runs |-> <<>>]
    /\ outcome = [r \in Runs |-> "none"]
    /\ failedAt = [r \in Runs |-> ""]
    /\ preRun = [r \in Runs |-> ConsumerState]

\* the stores of a fresh deployment
StoresEmpty ==
    /\ r2master = <<>>
    /\ r2raw = [k \in DateKeys |-> <<>>]
    /\ r2current = <<>>
    /\ r2history = [k \in DateKeys |-> <<>>]
    /\ kv = [k \in KvKeys |-> <<>>]
    /\ kvTtl = [k \in KvKeys |-> 0]

\* The stores as a complete manual run at time 0 left them.  That run saw a1
\* with an older file count and an earlier acceptance date, b1 as it is now,
\* and an organism the portal lists no more.
EarlierBatch ==
    ProcessOrganisms(<<[RawOrganism("archaea", 1) EXCEPT
                            !.file_total = 90,
                            !.proposal_acceptance_date = "2023-06-01"]>>,
                     "archaea", 0, NotDrawn(1))
    \o ProcessOrganisms(<<RawOrganism("bacteria", 1),
                          [RawOrganism("bacteria", 1) EXCEPT !.id = "b0"]>>,
                        "bacteria", 0, NotDrawn(2))

StoresAfterEarlierRun ==
    LET m == mergeAndDeduplicate(<<>>, EarlierBatch)
        a == processData(EarlierBatch, <<0>>, 0)
    IN  /\ r2master = <<MasterObject(m.merged, m.stats, 0)>>
        /\ r2raw = [k \in DateKeys |-> IF k = DateKey(0) THEN <<EarlierBatch>> ELSE <<>>]
        /\ r2current = <<a>>
        /\ r2history = [k \in DateKeys |-> IF k = DateKey(0) THEN <<a>> ELSE <<>>]
        /\ kv = [k \in KvKeys |->
                   IF k = "last_extraction" THEN <<0>>
                   ELSE IF k = "analytics_overview" THEN <<a.overview>>
                   ELSE IF k = "master_metadata"
                   THEN <<[totalCount |-> m.stats.totalCount, lastUpdated |-> 0,
                           newCount |-> m.stats.newCount,
                           updatedCount |-> m.stats.updatedCount]>>
                   ELSE <<>>]
        /\ kvTtl = [k \in KvKeys |->
                      IF k = "analytics_overview" THEN HourTtl
                      ELSE IF k = "recent_activity" THEN 0
                      ELSE DayTtl]

\* no overview request answered yet
ServeIdle == served = <<>>

AnalyticsIdle == aIn = <<>> /\ aOut = <<>>

\* no request under /api/debug/ answered yet
DebugIdle == debugResponse = <<>>

UpstreamIdle == upstream = <<>> /\ pageLoop = DomainStart /\ requested = <<>>

\* The stores as a manual run at time 0 left them whose put of the history
\* entry failed: the snapshot is current, not archived and not cached.
StoresAfterFailedArchive ==
    LET m == mergeAndDeduplicate(<<>>, EarlierBatch)
        a == processData(EarlierBatch, <<0>>, 0)
    IN  /\ r2master = <<MasterObject(m.merged, m.stats, 0)>>
        /\ r2raw = [k \in DateKeys |-> IF k = DateKey(0) THEN <<EarlierBatch>> ELSE <<>>]
        /\ r2current = <<a>>
        /\ r2history = [k \in DateKeys |-> <<>>]
        /\ kv = [k \in KvKeys |->
                   IF k = "last_extraction" THEN <<0>>
                   ELSE IF k = "master_metadata"
                   THEN <<[totalCount |-> m.stats.totalCount, lastUpdated |-> 0,
                           newCount |-> m.stats.newCount,
                           updatedCount |-> m.stats.updatedCount]>>
                   ELSE <<>>]
        /\ kvTtl = [k \in KvKeys |->
                      IF k \in {"last_extraction", "master_metadata"} THEN DayTtl ELSE 0]

MergeIdle ==
    /\ mMaster = <<>>
    /\ mIncoming = <<>>
    /\ mPrev = <<>>
    /\ mStats = NoStats
    /\ mFirstSeen = [id \in Ids |-> Undefined]
    /\ mCount = 0

\* ------------------------------------------------------------- SpecMerge
Datasets == {d \in SeqsUpTo(MergeRecords, Cardinality(Ids)) : UniqueIds(d)}
Batches == SeqsUpTo(IncomingRecords, MaxBatchLen)

\* submissionDate of the first observation of id in a sequence of observations
FirstDate(observations, id) ==
    observations[CHOOSE i \in 1..Len(observations) :
        /\ observations[i].id = id
        /\ \A j \in 1..(i - 1) : observations[j].id # id].submissionDate

InitMerge ==
    /\ mMaster \in Datasets
    /\ mIncoming \in Batches
    /\ mPrev = mMaster
    /\ mStats = NoStats
    /\ mFirstSeen = [id \in Ids |->
                        IF id \in IdsOf(mMaster) THEN FirstDate(mMaster, id) ELSE Undefined]
    /\ mCount = 0
    /\ env = "development"
    /\ StoresEmpty
    /\ RunsIdle
    /\ ServeIdle
    /\ AnalyticsIdle
    /\ DebugIdle
    /\ UpstreamIdle

\* reconcile(existing, incoming): one call of mergeAndDeduplicate on the
\* current dataset; the same batch stays incoming and may be merged again.
Reconcile ==
    /\ mCount < MaxMerges
    /\ LET r == mergeAndDeduplicate(mMaster, mIncoming)
       IN  /\ mMaster' = r.merged
           /\ mStats' = r.stats
    /\ mPrev' = mMaster
    /\ mFirstSeen' = [id \in Ids |->
                        IF mFirstSeen[id] # Undefined THEN mFirstSeen[id]
                        ELSE IF id \in IdsOf(mIncoming) THEN FirstDate(mIncoming, id)
                        ELSE Undefined]
    /\ mCount' = mCount + 1
    /\ UNCHANGED <<mIncoming, pipeVars, served, analyticsVars, debugVars, upstreamVars>>

NextMerge == Reconcile

SpecMerge == InitMerge /\ [][NextMerge]_vars

\* -------------------------------------------------------- pipeline steps
InFlight(r) == pc[r] \notin {"idle", "done"}

\* The entry of a run that reaches extractLatestData(full): fresh locals.
Enter(r, k, full) ==
    /\ ~InFlight(r)
    /\ clock' = clock + 1
    /\ pc' = [pc EXCEPT ![r] = "extracting"]
    /\ kind' = [kind EXCEPT ![r] = k]
    /\ fullExtraction' = [fullExtraction EXCEPT ![r] = full]
    /\ now' = [now EXCEPT ![r] = clock + 1]
    /\ loops' = [loops EXCEPT ![r] = NoLoops]
    /\ newProjects' = [newProjects EXCEPT ![r] = <<>>]
    /\ masterDataset' = [masterDataset EXCEPT ![r] = <<>>]
    /\ stats' = [stats EXCEPT ![r] = NoStats]
    /\ analytics' = [analytics EXCEPT ![r] = <<>>]
    /\ outcome' = [outcome EXCEPT ![r] = "none"]
    /\ failedAt' = [failedAt EXCEPT ![r] = ""]
    /\ preRun' = [preRun EXCEPT ![r] = ConsumerState]
    /\ UNCHANGED <<env, storeVars, mergeVars, served, analyticsVars, debugVars, upstreamVars>>

\* The handlers call extractLatestData() without an argument: the parameter
\* takes its default, false.
Begin(r, k) == Enter(r, k, FALSE)

\* scheduled(event, env, ctx): ctx.waitUntil(handleScheduled(env))
Scheduled(r) == Begin(r, "scheduled")

\* POST /api/pipeline/trigger and POST /api/debug/trigger: handleTriggerExtraction
ManualTrigger(r) ==
    /\ env # "production"
    /\ Begin(r, "manual")

ManualTriggerForbidden(r) ==
    /\ env = "production"
    /\ ~InFlight(r)
    /\ outcome[r] # "forbidden"
    /\ outcome' = [outcome EXCEPT ![r] = "forbidden"]
    /\ kind' = [kind EXCEPT ![r] = "manual"]
    /\ failedAt' = [failedAt EXCEPT ![r] = ""]
    /\ preRun' = [preRun EXCEPT ![r] = ConsumerState]
    /\ UNCHANGED <<env, clock, pc, fullExtraction, now, loops, newProjects, masterDataset, stats,
                   analytics, storeVars, mergeVars, served, analyticsVars, debugVars, upstreamVars>>

\* DebugUtilities.triggerExtraction(fullExtraction): in development it calls
\* handleScheduled(this.env, fullExtraction) and answers at once; handleScheduled
\* takes env alone and calls extractLatestData().
DebugTrigger(r, full) ==
    /\ env = "development"
    /\ Enter(r, IF full THEN "debugFull" ELSE "debugIncremental", FALSE)

\* a call of JGIDataExtractor.extractLatestData(fullExtraction) itself
ExtractLatestData(r, full) == Enter(r, "direct", full)

\* (a failed put of the master dataset logged and passed over)
SwallowMasterWriteError(r, step) ==
    /\ pc' = [pc EXCEPT ![r] = IF step = "storeMaster" THEN "cacheMasterMetadata" ELSE "done"]
    /\ outcome' = [outcome EXCEPT ![r] = IF step = "storeMaster" THEN @ ELSE "error"]
    /\ failedAt' = [failedAt EXCEPT ![r] = step]

\* catch (error) { console.error(...); throw error; } in the store methods,
\* extractLatestData and the handlers: the run ends with the handler throwing
Throw(r, step) ==
    /\ pc' = [pc EXCEPT ![r] = "done"]
    /\ outcome' = [outcome EXCEPT ![r] = "error"]
    /\ failedAt' = [failedAt EXCEPT ![r] = step]

Goto(r, next) ==
    /\ pc' = [pc EXCEPT ![r] = next]
    /\ UNCHANGED <<outcome, failedAt>>

\* extractGenomesForDomain: one page request of one domain loop.
FetchPage(r, domain) ==
    /\ pc[r] = "extracting"
    /\ ~loops[r][domain].returned
    /\ \E response \in PageResponses(domain, RequestedPage(loops[r][domain])) :
          \E randoms \in RandomDraws(Len(response.organisms)) :
              loops' = [loops EXCEPT ![r][domain] =
                            DomainIteration(loops[r][domain], domain,
                                            maxPagesFor(fullExtraction[r]),
                                            response, now[r], randoms)]
    /\ UNCHANGED <<env, clock, pc, kind, fullExtraction, now, newProjects, masterDataset, stats, analytics,
                   outcome, failedAt, preRun, storeVars, mergeVars, served, analyticsVars, debugVars, upstreamVars>>

\* getMasterDataset: data.projects, [] when the object is absent
MasterProjects(object) == IF object = <<>> THEN <<>> ELSE object[1].projects

\* catch (error) { return []; }
MasterOnReadError(object) == <<>>

\* Promise.all resolved; newProjects built; getMasterDataset awaited.
ReadMaster(r) ==
    /\ pc[r] = "extracting"
    /\ \A d \in SearchDomains : loops[r][d].returned
    /\ newProjects' = [newProjects EXCEPT ![r] =
                          loops[r]["archaea"].result \o loops[r]["bacteria"].result]
    /\ \E readOk \in BOOLEAN :
          masterDataset' = [masterDataset EXCEPT ![r] =
                                IF readOk THEN MasterProjects(r2master)
                                ELSE MasterOnReadError(r2master)]
    /\ Goto(r, "storeMaster")
    /\ UNCHANGED <<env, clock, kind, fullExtraction, now, loops, stats, analytics, preRun, storeVars, mergeVars, served, analyticsVars, debugVars, upstreamVars>>

\* mergeAndDeduplicate, then storeMasterDataset's put of master/genomes.json
StoreMaster(r) ==
    /\ pc[r] = "storeMaster"
    /\ LET m == mergeAndDeduplicate(masterDataset[r], newProjects[r])
       IN  /\ stats' = [stats EXCEPT ![r] = m.stats]
           /\ \/ /\ r2master' = <<MasterObject(m.merged, m.stats, now[r])>>
                 /\ Goto(r, "cacheMasterMetadata")
              \/ /\ UNCHANGED r2master
                 /\ Throw(r, "storeMaster")
    /\ UNCHANGED <<env, clock, kind, fullExtraction, now, loops, newProjects, masterDataset, analytics, preRun,
                   r2raw, r2current, r2history, kv, kvTtl, mergeVars, served, analyticsVars, debugVars, upstreamVars>>

\* a put into METADATA_CACHE, or its failure
KvPut(r, key, value, expirationTtl, step, next) ==
    \/ /\ kv' = [kv EXCEPT ![key] = <<value>>]
       /\ kvTtl' = [kvTtl EXCEPT ![key] = expirationTtl]
       /\ Goto(r, next)
    \/ /\ UNCHANGED <<kv, kvTtl>>
       /\ Throw(r, step)

\* storeMasterDataset's put of master_metadata
CacheMasterMetadata(r) ==
    /\ pc[r] = "cacheMasterMetadata"
    /\ KvPut(r, "master_metadata",
             [totalCount |-> stats[r].totalCount, lastUpdated |-> now[r],
              newCount |-> stats[r].newCount, updatedCount |-> stats[r].updatedCount],
             DayTtl, "cacheMasterMetadata", "cacheLastExtraction")
    /\ UNCHANGED <<env, clock, kind, fullExtraction, now, loops, newProjects, masterDataset, stats, analytics,
                   preRun, r2master, r2raw, r2current, r2history, mergeVars, served, analyticsVars, debugVars, upstreamVars>>

\* (the recency signal written for complete extractions only)
CacheLastExtractionUnlessPartial(r) ==
    /\ pc[r] = "cacheLastExtraction"
    /\ IF \E d \in SearchDomains : loops[r][d].failedPage > 0
       THEN Goto(r, "storeRawData") /\ UNCHANGED <<kv, kvTtl>>
       ELSE KvPut(r, "last_extraction", now[r], DayTtl, "cacheLastExtraction", "storeRawData")
    /\ UNCHANGED <<env, clock, kind, fullExtraction, now, loops, newProjects, masterDataset,
                   stats, analytics, preRun, r2master, r2raw, r2current, r2history, mergeVars,
                   served, analyticsVars, debugVars, upstreamVars>>

\* extractLatestData's put of last_extraction, then its return
CacheLastExtraction(r) ==
    /\ pc[r] = "cacheLastExtraction"
    /\ KvPut(r, "last_extraction", now[r], DayTtl, "cacheLastExtraction", "storeRawData")
    /\ UNCHANGED <<env, clock, kind, fullExtraction, now, loops, newProjects, masterDataset, stats, analytics,
                   preRun, r2master, r2raw, r2current, r2history, mergeVars, served, analyticsVars, debugVars, upstreamVars>>

\* storeRawData(projects)
StoreRawData(r) ==
    /\ pc[r] = "storeRawData"
    /\ \/ /\ r2raw' = [r2raw EXCEPT ![DateKey(now[r])] = <<newProjects[r]>>]
          /\ Goto(r, "processData")
       \/ /\ UNCHANGED r2raw
          /\ Throw(r, "storeRawData")
    /\ UNCHANGED <<env, clock, kind, fullExtraction, now, loops, newProjects, masterDataset, stats, analytics,
                   preRun, r2master, r2current, r2history, kv, kvTtl, mergeVars, served, analyticsVars, debugVars, upstreamVars>>

\* analyticsProcessor.processData(projects)
ProcessData(r) ==
    /\ pc[r] = "processData"
    /\ \/ /\ analytics' = [analytics EXCEPT ![r] =
                              <<processData(newProjects[r], kv["last_extraction"], now[r])>>]
          /\ Goto(r, IF kind[r] = "manual" THEN "storeCurrent" ELSE "cacheOverview")
       \/ /\ UNCHANGED analytics
          /\ Throw(r, "processData")
    /\ UNCHANGED <<env, clock, kind, fullExtraction, now, loops, newProjects, masterDataset, stats,
                   preRun, storeVars, mergeVars, served, analyticsVars, debugVars, upstreamVars>>

\* storeAnalytics: put of analytics/current.json
StoreCurrent(r) ==
    /\ pc[r] = "storeCurrent"
    /\ \/ /\ r2current' = analytics[r]
          /\ Goto(r, "storeHistory")
       \/ /\ UNCHANGED r2current
          /\ Throw(r, "storeCurrent")
    /\ UNCHANGED <<env, clock, kind, fullExtraction, now, loops, newProjects, masterDataset, stats, analytics,
                   preRun, r2master, r2raw, r2history, kv, kvTtl, mergeVars, served, analyticsVars, debugVars, upstreamVars>>

\* storeAnalytics: put of analytics/history/<dateKey>.json
StoreHistory(r) ==
    /\ pc[r] = "storeHistory"
    /\ \/ /\ r2history' = [r2history EXCEPT ![DateKey(now[r])] = analytics[r]]
          /\ Goto(r, "storeOverview")
       \/ /\ UNCHANGED r2history
          /\ Throw(r, "storeHistory")
    /\ UNCHANGED <<env, clock, kind, fullExtraction, now, loops, newProjects, masterDataset, stats, analytics,
                   preRun, r2master, r2raw, r2current, kv, kvTtl, mergeVars, served, analyticsVars, debugVars, upstreamVars>>

Respond(r) ==
    /\ pc' = [pc EXCEPT ![r] = "done"]
    /\ outcome' = [outcome EXCEPT ![r] = "success"]
    /\ UNCHANGED failedAt

\* storeAnalytics: put of analytics_overview, then the success response
StoreOverview(r) ==
    /\ pc[r] = "storeOverview"
    /\ \/ /\ kv' = [kv EXCEPT !["analytics_overview"] = <<analytics[r][1].overview>>]
          /\ kvTtl' = [kvTtl EXCEPT !["analytics_overview"] = HourTtl]
          /\ Respond(r)
       \/ /\ UNCHANGED <<kv, kvTtl>>
          /\ Throw(r, "storeOverview")
    /\ UNCHANGED <<env, clock, kind, fullExtraction, now, loops, newProjects, masterDataset, stats, analytics,
                   preRun, r2master, r2raw, r2current, r2history, mergeVars, served, analyticsVars, debugVars, upstreamVars>>

\* handleScheduled: put of analytics_overview
CacheOverview(r) ==
    /\ pc[r] = "cacheOverview"
    /\ KvPut(r, "analytics_overview", analytics[r][1].overview, DayTtl,
             "cacheOverview", "cacheRecentActivity")
    /\ UNCHANGED <<env, clock, kind, fullExtraction, now, loops, newProjects, masterDataset, stats, analytics,
                   preRun, r2master, r2raw, r2current, r2history, mergeVars, served, analyticsVars, debugVars, upstreamVars>>

\* handleScheduled: the activity entry it logs, then its normal return
ScheduledActivity(r) ==
    <<[type |-> "extraction", status |-> "success", timestamp |-> now[r],
       projectsProcessed |-> Len(newProjects[r])]>>

CacheRecentActivity(r) ==
    /\ pc[r] = "cacheRecentActivity"
    /\ \/ /\ kv' = [kv EXCEPT !["recent_activity"] = <<ScheduledActivity(r)>>]
          /\ kvTtl' = [kvTtl EXCEPT !["recent_activity"] = DayTtl]
          /\ Respond(r)
       \/ /\ UNCHANGED <<kv, kvTtl>>
          /\ Throw(r, "cacheRecentActivity")
    /\ UNCHANGED <<env, clock, kind, fullExtraction, now, loops, newProjects, masterDataset, stats, analytics,
                   preRun, r2master, r2raw, r2current, r2history, mergeVars, served, analyticsVars, debugVars, upstreamVars>>

RunStep(r) ==
    \/ \E d \in SearchDomains : FetchPage(r, d)
    \/ ReadMaster(r)
    \/ StoreMaster(r)
    \/ CacheMasterMetadata(r)
    \/ CacheLastExtraction(r)
    \/ StoreRawData(r)
    \/ ProcessData(r)
    \/ StoreCurrent(r)
    \/ StoreHistory(r)
    \/ StoreOverview(r)
    \/ CacheOverview(r)
    \/ CacheRecentActivity(r)

\* ------------------------------------------------------------------ Spec
\* Runs executed back to back: a run is triggered when none is in flight.
Init ==
    /\ env \in Environments
    /\ StoresEmpty \/ StoresAfterEarlierRun
    /\ RunsIdle
    /\ MergeIdle
    /\ ServeIdle
    /\ AnalyticsIdle
    /\ DebugIdle
    /\ UpstreamIdle

NoRunInFlight == \A q \in Runs : ~InFlight(q)

MayTrigger == clock < MaxRuns /\ NoRunInFlight

Next ==
    \/ MayTrigger /\ Scheduled("r1")
    \/ MayTrigger /\ ManualTrigger("r1")
    \/ MayTrigger /\ ManualTriggerForbidden("r1")
    \/ RunStep("r1")

Spec == Init /\ [][Next]_vars

\* -------------------------------------------------------------- SpecConc
\* Two invocations of the worker overlap: the cron trigger and manual triggers
\* reach handleScheduled and handleTriggerExtraction with no lock between
\* them.  Each invocation runs once; its two domain loops are taken as one
\* step, since they touch nothing but the run's own locals, and the portal is
\* healthy and small.
\* The portal answers every request, and each result set fits one page.
SinglePageResponses(domain, p) ==
    {response \in PageResponses(domain, p) :
        response.ok /\ response.isArray /\ response.total <= pageSize}

RECURSIVE LoopOutcomes(_, _, _, _)
LoopOutcomes(loop, domain, maxPages, at) ==
    IF loop.returned THEN {loop}
    ELSE UNION {UNION {LoopOutcomes(DomainIteration(loop, domain, maxPages, response, at,
                                                    randoms),
                                    domain, maxPages, at) :
                          randoms \in RandomDraws(Len(response.organisms))} :
                    response \in SinglePageResponses(domain, RequestedPage(loop))}

ExtractBothDomains(r) ==
    /\ pc[r] = "extracting"
    /\ \E d \in SearchDomains : ~loops[r][d].returned
    /\ \E a \in LoopOutcomes(DomainStart, "archaea", maxPagesFor(fullExtraction[r]), now[r]),
          b \in LoopOutcomes(DomainStart, "bacteria", maxPagesFor(fullExtraction[r]), now[r]) :
          loops' = [loops EXCEPT ![r] = [archaea |-> a, bacteria |-> b]]
    /\ UNCHANGED <<env, clock, pc, kind, fullExtraction, now, newProjects, masterDataset, stats, analytics,
                   outcome, failedAt, preRun, storeVars, mergeVars, served, analyticsVars, debugVars, upstreamVars>>

InitConc ==
    /\ env = "development"
    /\ StoresEmpty
    /\ RunsIdle
    /\ MergeIdle
    /\ ServeIdle
    /\ AnalyticsIdle
    /\ DebugIdle
    /\ UpstreamIdle

NeverRan(r) == pc[r] = "idle" /\ outcome[r] = "none"

NextConc ==
    \E r \in Runs :
        \/ NeverRan(r) /\ Scheduled(r)
        \/ NeverRan(r) /\ ManualTrigger(r)
        \/ ExtractBothDomains(r)
        \/ ReadMaster(r)
        \/ StoreMaster(r)
        \/ CacheMasterMetadata(r)
        \/ CacheLastExtraction(r)
        \/ StoreRawData(r)
        \/ ProcessData(r)
        \/ StoreCurrent(r)
        \/ StoreHistory(r)
        \/ StoreOverview(r)
        \/ CacheOverview(r)
        \/ CacheRecentActivity(r)

SpecConc == InitConc /\ [][NextConc]_vars

\* --------------------------------------------------------- SpecAnalytics
\* One call of processData at some hour of some day, over a dataset, with
\* yesterday's history object and the last_extraction entry as some earlier
\* run left them.
FirstDay == 40
AggregationTimes == {FirstDay * HoursPerDay, FirstDay * HoursPerDay + 13}

\* hours between the last completed run and the aggregation
Ages == {0, 23, 24, 30, 48}

\* submission dates around the 30-day window of an aggregation on day `today`
SubmissionStamps(today) ==
    {IsoDate(today - TrendDays - 1), IsoDate(today - TrendDays),
     IsoTimestamp((today - 1) * HoursPerDay + 5), IsoDate(today)}

AggregatedRecords(today) ==
    {GenomeProject("X", 100, s, dom, 0) :
        s \in SubmissionStamps(today), dom \in {"Archaea", "Bacteria"}}

\* analytics/history/<yesterday>.json: absent, or an object whose overview
\* has totalProjects absent, 0 or positive
HistoryObjects ==
    {<<>>} \cup {<<[overview |-> [totalProjects |-> t]]>> : t \in {<<>>, <<0>>, <<3>>}}

\* the last_extraction entry: never written, or written by a run `age` hours ago
LastExtractionEntries(at) ==
    {<<>>} \cup {<<[value |-> at - age, writtenAt |-> at - age, expirationTtl |-> DayTtl]>> :
                    age \in Ages}

InitAnalytics ==
    /\ \E at \in AggregationTimes :
          aIn \in {<<[at |-> at, projects |-> ps, history |-> h, readOk |-> ok,
                      lastExtraction |-> e]>> :
                      ps \in SeqsUpTo(AggregatedRecords(at \div HoursPerDay), MaxAggregated),
                      h \in HistoryObjects, ok \in BOOLEAN,
                      e \in LastExtractionEntries(at)}
    /\ aOut = <<>>
    /\ env = "development"
    /\ StoresEmpty
    /\ RunsIdle
    /\ MergeIdle
    /\ ServeIdle
    /\ DebugIdle
    /\ UpstreamIdle

\* processData: growthRate of computeOverview, the daily series of
\* computeTrends, the status of computePipelineHealth and the list of
\* computeRecentActivity
Aggregate ==
    /\ aOut = <<>>
    /\ LET in == aIn[1]
       IN  aOut' = <<[growthRate |->
                        calculateGrowthRate(Len(in.projects),
                                            getHistoricalOverview(in.history, in.readOk)),
                     daily |-> computeDailyTrends(in.projects, in.at),
                     status |-> computePipelineHealth(KvGetAt(in.lastExtraction, in.at),
                                                      in.at),
                     recentActivity |->
                        computeRecentActivity(KvGetAt(in.lastExtraction, in.at), in.at)]>>
    /\ UNCHANGED <<aIn, mergeVars, pipeVars, served, debugVars, upstreamVars>>

NextAnalytics == Aggregate

SpecAnalytics == InitAnalytics /\ [][NextAnalytics]_vars

\* ------------------------------------------------------------- SpecServe
\* One pipeline run against a healthy, small portal, while cache entries
\* expire and the dashboard requests the overview.

\* the expirationTtl of a cache entry elapses
Expire(key) ==
    /\ kv[key] # <<>>
    /\ kv' = [kv EXCEPT ![key] = <<>>]
    /\ kvTtl' = [kvTtl EXCEPT ![key] = 0]
    /\ UNCHANGED <<env, clock, runVars, r2master, r2raw, r2current, r2history, mergeVars,
                   served, analyticsVars, debugVars, upstreamVars>>

\* the overview handleAnalyticsOverview builds when the cache has none
PlaceholderOverview(at) ==
    [totalProjects |-> 0, archaeaProjects |-> 0, bacteriaProjects |-> 0, lastUpdated |-> at]

\* GET /api/analytics/overview: the cached overview, else the placeholder,
\* which is cached for an hour; a failed put ends the request with an error
handleAnalyticsOverview ==
    /\ \/ /\ kv["analytics_overview"] # <<>>
          /\ served' = kv["analytics_overview"]
          /\ UNCHANGED <<kv, kvTtl>>
       \/ /\ kv["analytics_overview"] = <<>>
          /\ \/ /\ kv' = [kv EXCEPT !["analytics_overview"] = <<PlaceholderOverview(clock)>>]
                /\ kvTtl' = [kvTtl EXCEPT !["analytics_overview"] = HourTtl]
                /\ served' = <<PlaceholderOverview(clock)>>
             \/ /\ served' = <<>>
                /\ UNCHANGED <<kv, kvTtl>>
    /\ UNCHANGED <<env, clock, runVars, r2master, r2raw, r2current, r2history, mergeVars,
                   analyticsVars, debugVars, upstreamVars>>

InitServe ==
    /\ env = "development"
    /\ StoresEmpty \/ StoresAfterEarlierRun \/ StoresAfterFailedArchive
    /\ RunsIdle
    /\ MergeIdle
    /\ ServeIdle
    /\ AnalyticsIdle
    /\ DebugIdle
    /\ UpstreamIdle

NextServe ==
    \/ NeverRan("r1") /\ Scheduled("r1")
    \/ NeverRan("r1") /\ ManualTrigger("r1")
    \/ ExtractBothDomains("r1")
    \/ ReadMaster("r1")
    \/ StoreMaster("r1")
    \/ CacheMasterMetadata("r1")
    \/ CacheLastExtraction("r1")
    \/ StoreRawData("r1")
    \/ ProcessData("r1")
    \/ StoreCurrent("r1")
    \/ StoreHistory("r1")
    \/ StoreOverview("r1")
    \/ CacheOverview("r1")
    \/ CacheRecentActivity("r1")
    \/ \E key \in KvKeys : Expire(key)
    \/ handleAnalyticsOverview

SpecServe == InitServe /\ [][NextServe]_vars

\* ----------------------------------------------------------- SpecExtract
\* The extraction phase of one run, from any entry that reaches
\* extractLatestData to the point where both domain loops have returned and
\* the master dataset has been read.  Every pending fetch is answered in the
\* end: each step of the run is taken if it stays possible.
InitExtract ==
    /\ env = "development"
    /\ StoresEmpty
    /\ RunsIdle
    /\ MergeIdle
    /\ ServeIdle
    /\ AnalyticsIdle
    /\ DebugIdle
    /\ UpstreamIdle

NextExtract ==
    \/ NeverRan("r1") /\ Scheduled("r1")
    \/ NeverRan("r1") /\ ManualTrigger("r1")
    \/ \E full \in BOOLEAN : NeverRan("r1") /\ DebugTrigger("r1", full)
    \/ \E full \in BOOLEAN : NeverRan("r1") /\ ExtractLatestData("r1", full)
    \/ \E d \in SearchDomains : FetchPage("r1", d)
    \/ ReadMaster("r1")

SpecExtract == InitExtract /\ [][NextExtract]_vars /\ WF_vars(NextExtract)

\* ---------------------------------------------------------- SpecUpstream
\* extractGenomesForDomain called on a portal whose pages do not change, and
\* its result reconciled into the master dataset; then the same again.
\* Pages hold well-formed organisms, organisms without an id, organisms
\* without id and name, and organisms whose name is not a string.
NameOnly(domain, p) == [RawOrganism(domain, p) EXCEPT !.id = Undefined]

Nameless(domain, p) ==
    [RawOrganism(domain, p) EXCEPT !.id = Undefined, !.name = Undefined]

Malformed(domain, p) == [RawOrganism(domain, p) EXCEPT !.name = NonStringName]

PageContents(domain, p) ==
    {<<>>,
     <<RawOrganism(domain, p)>>,
     <<NameOnly(domain, p)>>,
     <<Nameless(domain, p)>>,
     <<Malformed(domain, p)>>,
     <<Nameless(domain, p), RawOrganism(domain, p)>>,
     <<Malformed(domain, p), RawOrganism(domain, p)>>}

UpstreamTotals == {50, 150, 350}

\* what the portal answers for page p, every time it is asked
PortalPages(domain, p) ==
    {[ok |-> FALSE, isArray |-> FALSE, organisms |-> <<>>, total |-> 0],
     [ok |-> TRUE, isArray |-> FALSE, organisms |-> <<>>, total |-> 0]}
    \cup {[ok |-> TRUE, isArray |-> TRUE, organisms |-> o, total |-> t] :
            o \in PageContents(domain, p), t \in UpstreamTotals}

Upstreams ==
    {[domain |-> "bacteria", pages |-> <<p1, p2, p3>>] :
        p1 \in PortalPages("bacteria", 1), p2 \in PortalPages("bacteria", 2),
        p3 \in PortalPages("bacteria", 3)}

\* beyond the pages described the portal answers with an empty page
PageAt(pages, p) ==
    IF p \in 1..Len(pages) THEN pages[p]
    ELSE [ok |-> TRUE, isArray |-> TRUE, organisms |-> <<>>, total |-> 0]

InitUpstream ==
    /\ upstream \in {<<u>> : u \in Upstreams}
    /\ pageLoop = DomainStart
    /\ requested = <<>>
    /\ env = "development"
    /\ StoresEmpty
    /\ RunsIdle
    /\ MergeIdle
    /\ ServeIdle
    /\ AnalyticsIdle
    /\ DebugIdle

\* one request of the loop and the iteration it belongs to; the call is the
\* (mCount + 1)-th, at time mCount + 1
RequestPage ==
    /\ mCount < MaxMerges
    /\ ~pageLoop.returned
    /\ LET response == PageAt(upstream[1].pages, RequestedPage(pageLoop))
       IN  \E randoms \in RandomDraws(Len(response.organisms)) :
               pageLoop' = DomainIteration(pageLoop, upstream[1].domain,
                                           maxPagesFor(FALSE), response, mCount + 1, randoms)
    /\ requested' = Append(requested, RequestedPage(pageLoop))
    /\ UNCHANGED <<upstream, mergeVars, pipeVars, served, analyticsVars, debugVars>>

\* the call has returned: its projects are merged into the master dataset,
\* and the next call starts with fresh locals
ReconcileExtracted ==
    /\ mCount < MaxMerges
    /\ pageLoop.returned
    /\ LET m == mergeAndDeduplicate(mMaster, pageLoop.result)
       IN  /\ mMaster' = m.merged
           /\ mStats' = m.stats
    /\ mPrev' = mMaster
    /\ mIncoming' = pageLoop.result
    /\ mCount' = mCount + 1
    /\ pageLoop' = DomainStart
    /\ requested' = <<>>
    /\ UNCHANGED <<upstream, mFirstSeen, pipeVars, served, analyticsVars, debugVars>>

NextUpstream == RequestPage \/ ReconcileExtracted

SpecUpstream == InitUpstream /\ [][NextUpstream]_vars

\* ------------------------------------------------------------- SpecDebug
\* Requests under /api/debug/ against a deployment whose ENVIRONMENT is
\* development, staging or production, and the run a trigger request starts.
DebugEnvironments == Environments \cup {"staging"}

DebugPaths ==
    {"/api/debug/info", "/api/debug/kv", "/api/debug/kv/get", "/api/debug/r2",
     "/api/debug/r2/get", "/api/debug/trigger"}

Methods == {"GET", "POST"}

\* DebugUtilities.isDebugEnabled
isDebugEnabled == env = "development"

\* the answer to a request: its status and the store the handler read
DebugAnswer(status, read) == [status |-> status, read |-> read]

\* the if (!this.isDebugEnabled()) return this.forbiddenResponse() that opens
\* every method of DebugUtilities, then the method's read of the store
GuardedRead(store, found) ==
    IF ~isDebugEnabled THEN DebugAnswer(403, "none")
    ELSE DebugAnswer(IF found THEN 200 ELSE 404, store)

\* handleDebugRoute for the requests that do not reach handleTriggerExtraction:
\* hasKey says whether the query has a key parameter, found whether the R2
\* object it names exists
handleDebugRoute(path, method, hasKey, found) ==
    /\ ~(path = "/api/debug/trigger" /\ method = "POST")
    /\ debugResponse' =
          <<[path |-> path, method |-> method, hasKey |-> hasKey,
             answer |->
                IF path = "/api/debug/info" THEN GuardedRead("none", TRUE)
                ELSE IF path = "/api/debug/kv" THEN GuardedRead("kv", TRUE)
                ELSE IF path = "/api/debug/kv/get"
                THEN (IF ~hasKey THEN DebugAnswer(400, "none")
                      ELSE GuardedRead("kv", TRUE))
                ELSE IF path = "/api/debug/r2" THEN GuardedRead("r2", TRUE)
                ELSE IF path = "/api/debug/r2/get"
                THEN (IF ~hasKey THEN DebugAnswer(400, "none")
                      ELSE GuardedRead("r2", found))
                ELSE DebugAnswer(404, "none")]>>
    /\ UNCHANGED <<mergeVars, pipeVars, served, analyticsVars, upstreamVars>>

InitDebug ==
    /\ env \in DebugEnvironments
    /\ StoresAfterEarlierRun
    /\ RunsIdle
    /\ MergeIdle
    /\ ServeIdle
    /\ AnalyticsIdle
    /\ DebugIdle
    /\ UpstreamIdle

\* POST /api/debug/trigger is handed to handleTriggerExtraction
NextDebug ==
    \/ \E path \in DebugPaths, method \in Methods, hasKey \in BOOLEAN, found \in BOOLEAN :
          handleDebugRoute(path, method, hasKey, found)
    \/ NeverRan("r1") /\ ManualTrigger("r1")
    \/ NeverRan("r1") /\ ManualTriggerForbidden("r1")
    \/ ExtractBothDomains("r1")
    \/ ReadMaster("r1")
    \/ StoreMaster("r1")
    \/ CacheMasterMetadata("r1")
    \/ CacheLastExtraction("r1")
    \/ StoreRawData("r1")
    \/ ProcessData("r1")
    \/ StoreCurrent("r1")
    \/ StoreHistory("r1")
    \/ StoreOverview("r1")

SpecDebug == InitDebug /\ [][NextDebug]_vars

\* ================================================================ claims
AsSet(projects) == {projects[i] : i \in 1..Len(projects)}

Reordered(batch, p) == [i \in 1..Len(batch) |-> batch[p[i]]]

\* C1: merging the same batch a second time into the result of the first merge
\* yields newCount = 0, updatedCount = 0 and the same dataset, for every
\* dataset and every batch, ids in the batch not required to be distinct.
C1_IdempotentMerge ==
    mCount >= 2 =>
        /\ mStats.newCount = 0
        /\ mStats.updatedCount = 0
        /\ mMaster = mPrev

\* C2: after any sequence of merges, every stored record carries the
\* submissionDate of the first observation of its id ever merged.
C2_SubmissionDateImmutable ==
    \A i \in 1..Len(mMaster) : mMaster[i].submissionDate = mFirstSeen[mMaster[i].id]

\* a re-observation with a changed gene count and another date was merged, and
\* the stored record took its gene count
C2_Witness ==
    /\ mCount >= 1
    /\ mStats.updatedCount > 0
    /\ \E i \in 1..Len(mMaster), j \in 1..Len(mIncoming) :
          /\ mIncoming[j].id = mMaster[i].id
          /\ mMaster[i].id \in IdsOf(mPrev)
          /\ mIncoming[j].geneCount = mMaster[i].geneCount
          /\ mIncoming[j].geneCount # MapGet(mPrev, mMaster[i].id).geneCount
          /\ mIncoming[j].submissionDate # mMaster[i].submissionDate

\* C3: two batches holding the same records in a different order merge into
\* the same id-to-record mapping with the same newCount and updatedCount.
C3_OrderIndependentMerge ==
    mCount >= 1 =>
        \A p \in Permutations(1..Len(mIncoming)) :
            LET other == mergeAndDeduplicate(mPrev, Reordered(mIncoming, p))
            IN  /\ AsSet(other.merged) = AsSet(mMaster)
                /\ other.stats.newCount = mStats.newCount
                /\ other.stats.updatedCount = mStats.updatedCount

\* C4: every id of the persisted master dataset is still in it after any step
\* of any run, runs whose read of the master dataset fails included.
C4_MasterOnlyGrows ==
    [][IdsOf(MasterProjects(r2master)) \subseteq IdsOf(MasterProjects(r2master'))]_vars

\* C5: at most one run is between its read of the master dataset and the end
\* of its write of the merged master dataset.
C5_SingleFlight ==
    Cardinality({r \in Runs : pc[r] = "storeMaster"}) <= 1

\* C6: once two runs have both completed successfully, the persisted master
\* dataset holds every id of both runs' batches.
C6_NoLostUpdate ==
    (\A r \in Runs : outcome[r] = "success") =>
        \A r \in Runs : IdsOf(newProjects[r]) \subseteq IdsOf(MasterProjects(r2master))

\* the projects of pages 1..k-1 of a domain, as a run at time `at` normalizes them
RECURSIVE PagesBefore(_, _, _)
PagesBefore(domain, k, at) ==
    IF k <= 1 THEN <<>>
    ELSE PagesBefore(domain, k - 1, at)
            \o ProcessOrganisms(<<RawOrganism(domain, k - 1)>>, domain, at, NotDrawn(1))

MasterWritten(r) ==
    pc[r] \in {"cacheMasterMetadata", "cacheLastExtraction", "storeRawData", "processData",
               "storeCurrent", "storeHistory", "storeOverview", "cacheOverview",
               "cacheRecentActivity"}

\* C7: a domain whose request of page k fails contributes exactly the records
\* of pages 1..k-1; the run still waits for the other domain's loop, and the
\* master dataset it writes holds the records of both domains.
C7_PageFailureContained ==
    \A r \in Runs :
        /\ \A d \in SearchDomains :
              (loops[r][d].returned /\ loops[r][d].failedPage > 0) =>
                  loops[r][d].result = PagesBefore(d, loops[r][d].failedPage, now[r])
        /\ (\E d \in SearchDomains : loops[r][d].failedPage > 0) =>
              /\ pc[r] # "extracting" =>
                    /\ \A d \in SearchDomains : loops[r][d].returned
                    /\ newProjects[r] = loops[r]["archaea"].result \o loops[r]["bacteria"].result
              /\ MasterWritten(r) =>
                    \A d \in SearchDomains :
                        IdsOf(loops[r][d].result) \subseteq IdsOf(MasterProjects(r2master))

\* archaea failed on page 2, bacteria went on to a second page, and the run
\* has written the master dataset
C7_Witness ==
    \E r \in Runs :
        /\ pc[r] = "cacheMasterMetadata"
        /\ loops[r]["archaea"].failedPage = 2
        /\ Len(loops[r]["archaea"].result) = 1
        /\ loops[r]["bacteria"].failedPage = 0
        /\ Len(loops[r]["bacteria"].result) >= 2

C9_MasterWriteFailureFatal ==
    \A r \in Runs :
        failedAt[r] = "storeMaster" =>
            /\ pc[r] = "done"
            /\ outcome[r] = "error"
            /\ ConsumerState = preRun[r]

\* a run that extracted records over an earlier deployment failed to write them
C9_Witness ==
    \E r \in Runs :
        /\ failedAt[r] = "storeMaster"
        /\ outcome[r] = "error"
        /\ Len(newProjects[r]) > 0
        /\ preRun[r].current # <<>>
        /\ preRun[r].last_extraction # <<>>

\* C10: when one of storeAnalytics' writes fails, the current snapshot, the
\* dated history entry and the cached overview all hold their pre-run values.
C10_NoHalfWrittenSnapshot ==
    \A r \in Runs :
        failedAt[r] \in {"storeCurrent", "storeHistory", "storeOverview"} =>
            /\ r2current = preRun[r].current
            /\ r2history = preRun[r].history
            /\ kv["analytics_overview"] = preRun[r].analytics_overview

C13_BoundedExtraction ==
    /\ [](\A r \in Runs, d \in SearchDomains :
            (pc[r] = "extracting" /\ ~loops[r][d].returned) =>
                RequestedPage(loops[r][d]) <= maxPagesFor(fullExtraction[r]))
    /\ [][\A r \in Runs, d \in SearchDomains :
            (pc[r] = "extracting" /\ pc'[r] = "extracting" /\ loops'[r][d] # loops[r][d]) =>
                \/ loops'[r][d].returned
                \/ RequestedPage(loops'[r][d]) = RequestedPage(loops[r][d]) + 1]_vars
    /\ \A r \in Runs : (pc[r] = "extracting") ~> (pc[r] = "storeMaster")

\* a full extraction that stopped at the cap with the portal reporting more,
\* next to a loop cut short by a failed request
C13_Witness ==
    \E r \in Runs :
        /\ pc[r] = "storeMaster"
        /\ fullExtraction[r]
        /\ Len(loops[r]["bacteria"].result) = FullMaxPages
        /\ loops[r]["archaea"].failedPage = 2

\* C14: a run started by a trigger called with fullExtraction = true extracts
\* with the full page cap; one started with fullExtraction = false, by the
\* scheduler or by the plain manual trigger extracts with the incremental cap.
C14_DepthFollowsTrigger ==
    \A r \in Runs :
        pc[r] = "extracting" =>
            /\ kind[r] = "debugFull" => maxPagesFor(fullExtraction[r]) = FullMaxPages
            /\ kind[r] \in {"debugIncremental", "scheduled", "manual"} =>
                  maxPagesFor(fullExtraction[r]) = IncrementalMaxPages

\* the put of last_extraction has returned in run r
ExtractionReturned(r) ==
    \/ pc[r] \in {"storeRawData", "processData", "storeCurrent", "storeHistory",
                  "storeOverview", "cacheOverview", "cacheRecentActivity"}
    \/ pc[r] = "done" /\ outcome[r] = "success"
    \/ failedAt[r] \in {"storeRawData", "processData", "storeCurrent", "storeHistory",
                        "storeOverview", "cacheOverview", "cacheRecentActivity"}

\* C15: a run whose extraction, merge and master write completed has stored
\* its time under last_extraction with a TTL of 24 hours, whether or not a
\* domain stopped on a failed page; and last_extraction is written only when
\* the master dataset of that run, holding the run's batch, is already stored.
C15_RecencySignal ==
    /\ [](\A r \in Runs :
            ExtractionReturned(r) =>
                /\ kv["last_extraction"] = <<now[r]>>
                /\ kvTtl["last_extraction"] = DayTtl)
    /\ [][kv'["last_extraction"] # kv["last_extraction"] =>
            \E r \in Runs :
                /\ pc[r] = "cacheLastExtraction"
                /\ r2master # <<>>
                /\ r2master[1].lastUpdated = now[r]
                /\ IdsOf(newProjects[r]) \subseteq IdsOf(MasterProjects(r2master))]_vars

\* a run in which archaea stopped on a failed page has written the signal
C15_Witness ==
    \E r \in Runs :
        /\ pc[r] = "storeRawData"
        /\ loops[r]["archaea"].failedPage = 2
        /\ loops[r]["bacteria"].failedPage = 0
        /\ kv["last_extraction"] = <<now[r]>>
        /\ preRun[r].last_extraction # <<now[r]>>

\* a step that answers an overview request
OverviewRead ==
    /\ pc' = pc
    /\ loops' = loops
    /\ \/ served' # served
       \/ kv'["analytics_overview"] \notin {<<>>, kv["analytics_overview"]}

\* C17: an overview request that finds no cache entry while a snapshot is
\* stored answers with the overview of that snapshot and puts nothing else
\* into the cache.
C17_CacheAdvisory ==
    [][(OverviewRead /\ kv["analytics_overview"] = <<>> /\ r2current # <<>>) =>
            /\ served' = <<r2current[1].overview>>
            /\ kv'["analytics_overview"] \in {<<>>, <<r2current[1].overview>>}]_vars

\* C18: once a run has overwritten the current snapshot, the snapshot that
\* was current before the run is stored under a dated history key.
C18_ArchiveBeforeOverwrite ==
    \A r \in Runs :
        (preRun[r].current # <<>> /\ r2current # preRun[r].current) =>
            \E k \in DateKeys : r2history[k] = preRun[r].current

\* the status the thresholds give a last run `hours` hours old
StatusForAge(hours) ==
    IF hours < 25 THEN "healthy" ELSE IF hours < 48 THEN "warning" ELSE "error"

\* C16: the status an aggregation computes is the one the thresholds give the
\* age of the timestamp the last completed run stored under last_extraction
\* (healthy below 25 hours, warning below 48, error from 48 on or with no run).
C16_HealthThresholds ==
    aOut # <<>> =>
        aOut[1].status =
            IF aIn[1].lastExtraction = <<>> THEN "error"
            ELSE StatusForAge(aIn[1].at - aIn[1].lastExtraction[1].value)

\* C19: the growth rate is exactly 0 when yesterday's snapshot is missing,
\* unreadable, or has totalProjects absent or 0, whatever the current total,
\* and it is always a finite number.
C19_GrowthRateSafety ==
    aOut # <<>> =>
        /\ aOut[1].growthRate.isFinite
        /\ (\/ aIn[1].history = <<>>
            \/ ~aIn[1].readOk
            \/ aIn[1].history[1].overview.totalProjects \in {<<>>, <<0>>}) =>
                aOut[1].growthRate = Num(0)

\* a dataset of two projects aggregated over a stored snapshot of none
C19_Witness ==
    /\ aOut # <<>>
    /\ Len(aIn[1].projects) = 2
    /\ aIn[1].readOk
    /\ aIn[1].history # <<>>
    /\ aIn[1].history[1].overview.totalProjects = <<0>>
    /\ aOut[1].growthRate = Num(0)

\* the dates of the rows of a daily series
DailyDates(daily) == {daily[i].date : i \in 1..Len(daily)}

\* C20: the daily series has exactly 60 rows over 30 distinct dates, one
\* Bacteria row and one Archaea row per date, and a row is 0 when no project
\* of its domain was submitted on its date.
C20_ZeroFilledDailyTrend ==
    aOut # <<>> =>
        LET daily == aOut[1].daily
        IN  /\ Len(daily) = 60
            /\ Cardinality(DailyDates(daily)) = 30
            /\ \A dateStr \in DailyDates(daily), dom \in {"Bacteria", "Archaea"} :
                  Cardinality({i \in 1..Len(daily) :
                                  daily[i].date = dateStr /\ daily[i].domain = dom}) = 1
            /\ \A i \in 1..Len(daily) :
                  (\A j \in 1..Len(aIn[1].projects) :
                      \/ SplitT(aIn[1].projects[j].submissionDate) # daily[i].date
                      \/ aIn[1].projects[j].metadata.domain # daily[i].domain)
                      => daily[i].count = 0

\* a series with a counted row for a project inside the window next to rows
\* of zero, and a project outside the window
C20_Witness ==
    /\ aOut # <<>>
    /\ Len(aIn[1].projects) = 2
    /\ \E i \in 1..Len(aOut[1].daily) : aOut[1].daily[i].count = 1
    /\ Cardinality({i \in 1..Len(aOut[1].daily) : aOut[1].daily[i].count = 0}) = 59

\* C21: in every snapshot a run computes from its extracted batch, every
\* project has the domain Archaea or Bacteria, and archaeaProjects plus
\* bacteriaProjects is totalProjects.
C21_DomainCountsPartition ==
    \A r \in Runs :
        analytics[r] # <<>> =>
            /\ \A i \in 1..Len(newProjects[r]) :
                  newProjects[r][i].metadata.domain \in {"Archaea", "Bacteria"}
            /\ analytics[r][1].overview.archaeaProjects
                  + analytics[r][1].overview.bacteriaProjects
                  = analytics[r][1].overview.totalProjects
            /\ analytics[r][1].overview.totalProjects = Len(newProjects[r])

\* a batch of 3 Bacteria and 1 Archaea records counted as 3, 1 and 4
C21_Witness ==
    \E r \in Runs :
        /\ analytics[r] # <<>>
        /\ analytics[r][1].overview.bacteriaProjects = 3
        /\ analytics[r][1].overview.archaeaProjects = 1
        /\ analytics[r][1].overview.totalProjects = 4

\* C22: the recentActivity list of every snapshot has at most 10 events and
\* each event's timestamp is greater than or equal to that of the event after
\* it.
C22_RecentActivityNewestFirst ==
    aOut # <<>> =>
        LET activities == aOut[1].recentActivity
        IN  /\ Len(activities) <= 10
            /\ \A i \in 1..(Len(activities) - 1) :
                  activities[i].timestamp >= activities[i + 1].timestamp

\* a request as the README writes it: the get endpoints with their key
\* parameter (the trigger, a POST, is answered by handleTriggerExtraction)
AsDocumented(request) ==
    /\ request.path \in {"/api/debug/kv/get", "/api/debug/r2/get"} => request.hasKey
    /\ request.path # "/api/debug/trigger"

\* C23: when ENVIRONMENT is not development, every request to a debug
\* endpoint (info, kv, kv/get, r2, r2/get, trigger) is answered with 403
\* without a read of the stores, and no extraction is started.
C23_DebugDevelopmentOnly ==
    env # "development" =>
        /\ (debugResponse # <<>> /\ AsDocumented(debugResponse[1])) =>
              /\ debugResponse[1].answer.status = 403
              /\ debugResponse[1].answer.read = "none"
        /\ \A r \in Runs :
              /\ pc[r] = "idle"
              /\ outcome[r] \in {"none", "forbidden"}

\* C24: after a merge, totalCount is the number of distinct ids of the
\* existing dataset and the batch together, and it is the number of existing
\* entries plus newCount; merging n records with distinct ids into an empty
\* dataset gives totalCount = n, newCount = n, updatedCount = 0.
C24_MergeCounts ==
    mCount >= 1 =>
        /\ mStats.totalCount = Cardinality(IdsOf(mPrev) \cup IdsOf(mIncoming))
        /\ mStats.totalCount = Len(mMaster)
        /\ mStats.totalCount = Len(mPrev) + mStats.newCount
        /\ (mPrev = <<>> /\ UniqueIds(mIncoming)) =>
              /\ mStats.totalCount = Len(mIncoming)
              /\ mStats.newCount = Len(mIncoming)
              /\ mStats.updatedCount = 0

\* a batch with a known id, changed, and a new id merged into a dataset of one
C24_Witness ==
    /\ mCount = 1
    /\ Len(mPrev) = 1
    /\ Len(mIncoming) = 2
    /\ mStats = [newCount |-> 1, updatedCount |-> 1, totalCount |-> 2]

\* the accumulator of the merge before the j-th incoming record is taken
MergeBefore(j) ==
    MergeLoop([projectMap |-> MapFromArray(mPrev), newCount |-> 0, updatedCount |-> 0],
              SubSeq(mIncoming, 1, j - 1))

\* one of the four tracked fields differs
TrackedDiffers(existing, incoming) ==
    \/ existing.sequenceLength # incoming.sequenceLength
    \/ existing.geneCount # incoming.geneCount
    \/ existing.status # incoming.status
    \/ existing.metadata # incoming.metadata

Continues(n) == n < Len(requested) \/ (n = Len(requested) /\ ~pageLoop.returned)

\* C26: when no page request fails, the pages requested by a call are
\* 1, 2, ..., k in that order, each once, and page n + 1 is requested exactly
\* when page n returned at least one record, n * pageSize is below the total
\* page n reported, and n is below maxPages.
C26_PaginationSequence ==
    LET pages == upstream[1].pages
    IN  (upstream # <<>> /\ \A i \in 1..Len(requested) : PageAt(pages, requested[i]).ok) =>
            /\ \A i \in 1..Len(requested) : requested[i] = i
            /\ \A n \in 1..Len(requested) :
                  Continues(n) <=>
                      /\ Len(PageAt(pages, n).organisms) >= 1
                      /\ n * 100 < PageAt(pages, n).total
                      /\ n < maxPagesFor(FALSE)

\* a call that requested pages 1, 2 and 3 and stopped at the cap while the
\* portal reported more, page 2 holding nothing but a record that is skipped
C26_Witness ==
    /\ upstream # <<>>
    /\ pageLoop.returned
    /\ requested = <<1, 2, 3>>
    /\ upstream[1].pages[3].total = 350
    /\ Len(upstream[1].pages[3].organisms) >= 1
    /\ upstream[1].pages[2].organisms = <<Nameless("bacteria", 2)>>

\* a raw record the organisms loop passes over
Skipped(organism) ==
    \/ NormalizationThrows(organism)
    \/ organism.name = Undefined /\ organism.id = Undefined

WithoutSkipped(organisms) == SelectSeq(organisms, LAMBDA o : ~Skipped(o))

\* the portal with the skipped records taken out of its pages
Cleaned(pages) ==
    [n \in 1..Len(pages) |-> [pages[n] EXCEPT !.organisms = WithoutSkipped(@)]]

\* the ways a call can return on a portal
RECURSIVE CallOutcomes(_, _, _, _)
CallOutcomes(loop, domain, pages, at) ==
    IF loop.returned THEN {loop}
    ELSE LET response == PageAt(pages, RequestedPage(loop))
         IN  UNION {CallOutcomes(DomainIteration(loop, domain, maxPagesFor(FALSE), response,
                                                 at, randoms),
                                 domain, pages, at) :
                       randoms \in RandomDraws(Len(response.organisms))}

\* C27 as stated: a call returns what it would return on the same portal with
\* the skipped records (no name and no id, or normalization throwing) absent
\* from their pages: the other records in the batch, the same pages visited.
C27_SkippedAsIfAbsent ==
    (upstream # <<>> /\ pageLoop.returned) =>
        \E o \in CallOutcomes(DomainStart, upstream[1].domain, Cleaned(upstream[1].pages),
                              mCount + 1) :
            /\ o.result = pageLoop.result
            /\ o.failedPage = pageLoop.failedPage

\* the projects the call in progress has gathered
Gathered == IF pageLoop.returned THEN pageLoop.result ELSE pageLoop.projects

\* the raw records of the pages fetched so far that are not skipped, in order
RECURSIVE KeptRaw(_, _)
KeptRaw(pages, k) ==
    IF k = 0 THEN <<>>
    ELSE KeptRaw(pages, k - 1)
            \o (IF PageAt(pages, requested[k]).ok /\ PageAt(pages, requested[k]).isArray
                THEN WithoutSkipped(PageAt(pages, requested[k]).organisms)
                ELSE <<>>)

\* C27, amended: the batch holds, in order, one project for each record of
\* the fetched pages that is not skipped, and none for a skipped one; a
\* skipped record does not end the call, and it counts as a returned record
\* in the test that decides whether the next page is requested.
C27_RecordErrorsAbsorbed ==
    upstream # <<>> =>
        LET pages == upstream[1].pages
            kept == KeptRaw(pages, Len(requested))
        IN  /\ Len(Gathered) = Len(kept)
            /\ \A i \in 1..Len(kept) :
                  /\ Gathered[i].id \in (IF kept[i].id # Undefined THEN {kept[i].id} ELSE Randoms)
                  /\ Gathered[i].geneCount = kept[i].file_total
                  /\ Gathered[i].submissionDate = kept[i].proposal_acceptance_date
                  /\ Gathered[i].metadata.domain = Capitalize(upstream[1].domain)
            /\ \A n \in 1..Len(requested) :
                  LET page == PageAt(pages, requested[n])
                  IN  /\ (pageLoop.returned /\ pageLoop.failedPage = requested[n]) => ~page.ok
                      /\ (page.ok /\ page.isArray) =>
                            (Continues(n) <=>
                                /\ Len(page.organisms) >= 1
                                /\ requested[n] * 100 < page.total
                                /\ requested[n] < maxPagesFor(FALSE))

\* a call that met a record whose normalization throws before a good one on
\* page 1 and a record without name and id before a good one on page 2, and
\* returned both good ones
C27_Witness ==
    /\ upstream # <<>>
    /\ pageLoop.returned
    /\ requested = <<1, 2>>
    /\ upstream[1].pages[1].organisms = <<Malformed("bacteria", 1), RawOrganism("bacteria", 1)>>
    /\ upstream[1].pages[2].organisms = <<Nameless("bacteria", 2), RawOrganism("bacteria", 2)>>
    /\ IdsOf(pageLoop.result) = {"b1", "b2"}
    /\ Len(pageLoop.result) = 2

\* C28: every entry of the existing dataset whose id is not in the batch is
\* in the merged dataset with all its fields as they were, and every id of the
\* merged dataset comes from the existing dataset or from the batch.
C28_MergeFrame ==
    mCount >= 1 =>
        /\ \A i \in 1..Len(mPrev) :
              mPrev[i].id \notin IdsOf(mIncoming) =>
                  /\ MapHas(mMaster, mPrev[i].id)
                  /\ MapGet(mMaster, mPrev[i].id) = mPrev[i]
        /\ IdsOf(mMaster) \subseteq IdsOf(mPrev) \cup IdsOf(mIncoming)
        /\ UniqueIds(mMaster)

\* a dataset of two entries merged with a batch that changes one of them and
\* does not mention the other
C28_Witness ==
    /\ mCount = 1
    /\ Len(mPrev) = 2
    /\ Len(mIncoming) = 1
    /\ mStats.updatedCount = 1
    /\ \E i \in 1..2 :
          /\ mPrev[i].id \notin IdsOf(mIncoming)
          /\ mMaster[i] = mPrev[i]
          /\ mMaster[3 - i] # mPrev[3 - i]

\* C29: a second extraction of the same portal merges with newCount = 0 and
\* updatedCount = 0 and leaves the number of entries of the master dataset
\* as it was, and every stored id is the id of an upstream record.
C29_ReextractionStable ==
    (upstream # <<>> /\ mCount >= 2) =>
        /\ mStats.newCount = 0
        /\ mStats.updatedCount = 0
        /\ Len(mMaster) = Len(mPrev)
        /\ IdsOf(mMaster) \subseteq
              UNION {{upstream[1].pages[n].organisms[i].id :
                          i \in 1..Len(upstream[1].pages[n].organisms)} :
                        n \in 1..Len(upstream[1].pages)}

\* C30: the dates of the daily series are 30 consecutive days in ascending
\* order ending on the day of the aggregation, and for every one of those
\* days and either domain the series has exactly one row, whose count is the
\* number of projects of the domain submitted that day.
C30_DailyWindowEndsToday ==
    aOut # <<>> =>
        LET daily == aOut[1].daily
            today == aIn[1].at \div HoursPerDay
        IN  /\ Len(daily) = 2 * 30
            /\ \A k \in 1..30 :
                  /\ daily[2 * k - 1].date = <<today - 30 + k>>
                  /\ daily[2 * k].date = <<today - 30 + k>>
            /\ \A day \in (today - 29)..today, dom \in {"Bacteria", "Archaea"} :
                  \E i \in 1..Len(daily) :
                      /\ daily[i].date = <<day>>
                      /\ daily[i].domain = dom
                      /\ daily[i].count = TrendCount(aIn[1].projects, <<day>>, dom)
                      /\ \A j \in 1..Len(daily) :
                            (daily[j].date = <<day>> /\ daily[j].domain = dom) => j = i

====
